---- MODULE Spec2Model ----
(***************************************************************************)
(* WanderSphere root component (App): view routing, destination filter,    *)
(* session / notification state and the action handlers that forward to    *)
(* the authentication / document-store collaborator (AuthService).         *)
(***************************************************************************)
EXTENDS Bags, FiniteSets, Integers, Sequences, TLC

VARIABLES
    view,                 \* useState<ViewState>
    selectedDestination,  \* useState<Destination | null>
    searchTerm,           \* useState('')            (a sequence of characters)
    activeCategory,       \* useState("All")
    searchDate,           \* useState('')
    searchGuests,         \* useState('')
    user,                 \* useState<User | null>   (cached copy)
    authLoading,          \* useState(true)
    notification,         \* useState({message, type, isVisible})
    destinations,         \* MOCK_DESTINATIONS, the static list the filter runs over
    db,                   \* collaborator: the stored user documents
    session,              \* collaborator: uid of the signed-in user, or NULL
    snapshotDue,          \* collaborator: a session change not yet delivered to the listener
    calls,                \* bag of awaited collaborator calls, with the closure of each handler
    lifecycle,            \* the component: "created", "mounted" (effect has run) or "unmounted"
    subscriptions,        \* collaborator: number of session listeners not yet released
    exit,                 \* how the handler, callback or render that ran last ended
    trip                  \* history: the last two wishlist toggles the collaborator applied

vars == <<view, selectedDestination, searchTerm, activeCategory, searchDate,
          searchGuests, user, authLoading, notification, destinations,
          db, session, snapshotDue, calls, lifecycle, subscriptions, exit, trip>>

appVars == <<view, selectedDestination, user, authLoading, notification,
             db, session, snapshotDue, calls>>

searchVars == <<searchTerm, activeCategory, searchDate, searchGuests>>

\* what no handler writes: the static list and the effect's subscription
fixedVars == <<destinations, lifecycle, subscriptions>>

----------------------------------------------------------------------------
(* Values *)

NULL == [null |-> TRUE]

ViewState == {"HOME", "EXPLORE", "DETAILS", "CHATBOT", "LOGIN", "REGISTER", "DASHBOARD"}

CATEGORIES == <<"All", "Beach", "Mountain", "City", "Cultural", "Nature", "Luxury",
                "Budget Friendly">>

DestinationCategory == {"Beach", "Mountain", "City", "Cultural", "Nature", "Luxury",
                        "History"}

NotificationType == {"info", "success", "error"}

BudgetThreshold == 1500

MaxCalls == 1
MaxDests == 2

----------------------------------------------------------------------------
(* Strings are sequences of one-character strings. *)

UpperCase == <<"A","B","C","D","E","F","G","H","I","J","K","L","M",
               "N","O","P","Q","R","S","T","U","V","W","X","Y","Z">>
LowerCase == <<"a","b","c","d","e","f","g","h","i","j","k","l","m",
               "n","o","p","q","r","s","t","u","v","w","x","y","z">>

LowerChar(ch) ==
    IF \E i \in 1..Len(UpperCase) : UpperCase[i] = ch
    THEN LowerCase[CHOOSE i \in 1..Len(UpperCase) : UpperCase[i] = ch]
    ELSE ch

toLowerCase(s) == [i \in 1..Len(s) |-> LowerChar(s[i])]

includes(s, t) ==
    \E k \in 0..(Len(s) - Len(t)) : SubSeq(s, k + 1, k + Len(t)) = t

----------------------------------------------------------------------------
(* Destinations and the destination filter *)

Range(s) == {s[i] : i \in 1..Len(s)}

Destination(id, name, location, price, category) ==
    [id |-> id, name |-> name, location |-> location, price |-> price,
     category |-> category]

\* the static list, cut to its first destination
MOCK_DESTINATIONS ==
    << Destination("1", <<"B","a","l","i"," ","R","e","t","r","e","a","t">>,
                   <<"I","n","d","o","n","e","s","i","a">>, 800, "Beach") >>

DestIds == {d.id : d \in Range(MOCK_DESTINATIONS)}

\* mutant: the budget comparison made strict
matchesCategory_strict(d, category) ==
    \/ category = "All"
    \/ d.category = category
    \/ (category = "Budget Friendly" /\ d.price < BudgetThreshold)

matchesCategory(d, category) ==
    \/ category = "All"
    \/ d.category = category
    \/ (category = "Budget Friendly" /\ d.price <= BudgetThreshold)

\* mutant: the term compared without lower-casing it
matchesSearch_rawTerm(d, term) ==
    \/ includes(toLowerCase(d.name), term)
    \/ includes(toLowerCase(d.location), term)

\* mutant: the location compared with the term as typed
matchesSearch_rawLocationTerm(d, term) ==
    \/ includes(toLowerCase(d.name), toLowerCase(term))
    \/ includes(toLowerCase(d.location), term)

matchesSearch(d, term) ==
    \/ includes(toLowerCase(d.name), toLowerCase(term))
    \/ includes(toLowerCase(d.location), toLowerCase(term))

Filter(D, term, category) ==
    LET keep(d) == matchesCategory(d, category) /\ matchesSearch(d, term)
    IN  SelectSeq(D, keep)

filteredDestinations == Filter(destinations, searchTerm, activeCategory)

----------------------------------------------------------------------------
(* Users, the collaborator's documents, notifications *)

Uids == {"u1"}

NoSession == ""

NameOf(uid) == "Asha"

User(uid, lists) ==
    [uid |-> uid, name |-> NameOf(uid), wishlist |-> lists.wishlist,
     visitedPlaces |-> lists.visitedPlaces]

\* the user Login / Register hand to onLoginSuccess / onRegisterSuccess: the
\* stored document of the user who signed in
SignedIn(uid) == User(uid, db[uid])

\* what the session listener delivers: the signed-in user's document, or null
SessionUser == IF session = NoSession THEN NULL ELSE User(session, db[session])

Notice(message, type, isVisible) ==
    [message |-> message, type |-> type, isVisible |-> isVisible]

\* mutant: a notification still on screen is not replaced
showNotification_keepsOlder(message, type) ==
    notification' = IF notification.isVisible THEN notification
                    ELSE Notice(message, type, TRUE)

\* showNotification(message, type)
showNotification(message, type) == notification' = Notice(message, type, TRUE)

Call(op, uid, id, flag, status) ==
    [op |-> op, uid |-> uid, id |-> id, flag |-> flag, status |-> status]

Pending(c) == BagIn(c, calls)

Settle(c, status) ==
    calls' = (calls (-) SetToBag({c})) (+) SetToBag({[c EXCEPT !.status = status]})

----------------------------------------------------------------------------
(* Initial state: the values of the useState calls; the collaborator holds *)
(* one user document and may or may not have a session to restore.         *)

InitApp ==
    /\ view = "HOME"
    /\ selectedDestination = NULL
    /\ user = NULL
    /\ authLoading = TRUE
    /\ notification = Notice("", "info", FALSE)
    /\ db = [uid \in Uids |-> [wishlist |-> {"1"}, visitedPlaces |-> {}]]
    /\ session \in Uids \cup {NoSession}
    /\ snapshotDue = TRUE
    /\ calls = EmptyBag
    /\ lifecycle = "mounted"
    /\ subscriptions = 1
    /\ exit = "return"

InitSearch ==
    /\ searchTerm = <<>>
    /\ activeCategory = "All"
    /\ searchDate = ""
    /\ searchGuests = ""

InitTrip == trip = [k \in Uids \X DestIds |-> <<>>]

Init ==
    /\ InitApp
    /\ InitSearch
    /\ InitTrip
    /\ destinations = MOCK_DESTINATIONS

----------------------------------------------------------------------------
(* Session listener: the callback given to AuthService.subscribeToAuth *)

\* mutant: a null delivered by the listener is ignored
onAuthChange_ignoresNull ==
    /\ subscriptions > 0
    /\ snapshotDue
    /\ user' = IF SessionUser = NULL THEN user ELSE SessionUser
    /\ authLoading' = FALSE
    /\ snapshotDue' = FALSE
    /\ exit' = "return"
    /\ UNCHANGED <<view, selectedDestination, notification, db, session, calls>>
    /\ UNCHANGED <<searchVars, fixedVars, trip>>

onAuthChange ==
    /\ subscriptions > 0
    /\ snapshotDue
    /\ user' = SessionUser
    /\ authLoading' = FALSE
    /\ snapshotDue' = FALSE
    /\ exit' = "return"
    /\ UNCHANGED <<view, selectedDestination, notification, db, session, calls>>
    /\ UNCHANGED <<searchVars, fixedVars, trip>>

----------------------------------------------------------------------------
(* Action handlers *)

handleDestinationClick(dest) ==
    /\ selectedDestination' = dest
    /\ view' = "DETAILS"
    /\ exit' = "return"
    /\ UNCHANGED <<user, authLoading, notification, db, session, snapshotDue, calls>>
    /\ UNCHANGED <<searchVars, fixedVars, trip>>

isVisited(u, id) == id \in u.visitedPlaces

\* mutant: the visited list read in place of the wishlist
isWishlisted_wrongList(u, id) == id \in u.visitedPlaces

isWishlisted(u, id) == id \in u.wishlist

\* mutant: the early return taken without setView(LOGIN)
toggleVisited_noRedirect(id) ==
    /\ IF user = NULL
       THEN /\ exit' = "toggleVisited: no user"
            /\ UNCHANGED <<view, calls>>
       ELSE /\ BagCardinality(calls) < MaxCalls
            /\ exit' = "return"
            /\ calls' = calls (+) SetToBag({Call("toggleVisited", user.uid, id,
                                                 isVisited(user, id), "pending")})
            /\ UNCHANGED view
    /\ UNCHANGED <<selectedDestination, user, authLoading, notification, db, session,
                   snapshotDue>>
    /\ UNCHANGED <<searchVars, fixedVars, trip>>

\* toggleVisited up to its await
toggleVisited(id) ==
    /\ IF user = NULL
       THEN /\ view' = "LOGIN"
            /\ exit' = "toggleVisited: no user"
            /\ UNCHANGED calls
       ELSE /\ BagCardinality(calls) < MaxCalls
            /\ exit' = "return"
            /\ calls' = calls (+) SetToBag({Call("toggleVisited", user.uid, id,
                                                 isVisited(user, id), "pending")})
            /\ UNCHANGED view
    /\ UNCHANGED <<selectedDestination, user, authLoading, notification, db, session,
                   snapshotDue>>
    /\ UNCHANGED <<searchVars, fixedVars, trip>>

\* mutant: the success notification shown on removal too
toggleVisitedResume_alwaysNotify(c) ==
    /\ Pending(c)
    /\ c.op = "toggleVisited"
    /\ c.status # "pending"
    /\ calls' = calls (-) SetToBag({c})
    /\ IF c.status = "ok"
       THEN showNotification("Added to your Travel Log!", "success")
       ELSE showNotification("Failed to update status", "error")
    /\ exit' = "return"
    /\ UNCHANGED <<view, selectedDestination, user, authLoading, db, session,
                   snapshotDue>>
    /\ UNCHANGED <<searchVars, fixedVars, trip>>

\* toggleVisited after its await: the try block's tail, or the catch block
toggleVisitedResume(c) ==
    /\ Pending(c)
    /\ c.op = "toggleVisited"
    /\ c.status # "pending"
    /\ calls' = calls (-) SetToBag({c})
    /\ IF c.status = "ok"
       THEN IF ~c.flag
            THEN showNotification("Added to your Travel Log!", "success")
            ELSE UNCHANGED notification
       ELSE showNotification("Failed to update status", "error")
    /\ exit' = "return"
    /\ UNCHANGED <<view, selectedDestination, user, authLoading, db, session,
                   snapshotDue>>
    /\ UNCHANGED <<searchVars, fixedVars, trip>>

\* toggleWishlist up to its await
toggleWishlist(id) ==
    /\ IF user = NULL
       THEN /\ view' = "LOGIN"
            /\ exit' = "toggleWishlist: no user"
            /\ UNCHANGED calls
       ELSE /\ BagCardinality(calls) < MaxCalls
            /\ exit' = "return"
            /\ calls' = calls (+) SetToBag({Call("toggleWishlist", user.uid, id,
                                                 isWishlisted(user, id), "pending")})
            /\ UNCHANGED view
    /\ UNCHANGED <<selectedDestination, user, authLoading, notification, db, session,
                   snapshotDue>>
    /\ UNCHANGED <<searchVars, fixedVars, trip>>

\* mutant: the catch block only logs
toggleWishlistResume_silentCatch(c) ==
    /\ Pending(c)
    /\ c.op = "toggleWishlist"
    /\ c.status # "pending"
    /\ calls' = calls (-) SetToBag({c})
    /\ IF c.status = "ok"
       THEN IF ~c.flag
            THEN showNotification("Added to Wishlist", "success")
            ELSE showNotification("Removed from Wishlist", "info")
       ELSE UNCHANGED notification
    /\ exit' = "return"
    /\ UNCHANGED <<view, selectedDestination, user, authLoading, db, session,
                   snapshotDue>>
    /\ UNCHANGED <<searchVars, fixedVars, trip>>

\* mutant: the two success branches exchanged
toggleWishlistResume_swapped(c) ==
    /\ Pending(c)
    /\ c.op = "toggleWishlist"
    /\ c.status # "pending"
    /\ calls' = calls (-) SetToBag({c})
    /\ IF c.status = "ok"
       THEN IF c.flag
            THEN showNotification("Added to Wishlist", "success")
            ELSE showNotification("Removed from Wishlist", "info")
       ELSE showNotification("Failed to update wishlist", "error")
    /\ exit' = "return"
    /\ UNCHANGED <<view, selectedDestination, user, authLoading, db, session,
                   snapshotDue>>
    /\ UNCHANGED <<searchVars, fixedVars, trip>>

\* toggleWishlist after its await
toggleWishlistResume(c) ==
    /\ Pending(c)
    /\ c.op = "toggleWishlist"
    /\ c.status # "pending"
    /\ calls' = calls (-) SetToBag({c})
    /\ IF c.status = "ok"
       THEN IF ~c.flag
            THEN showNotification("Added to Wishlist", "success")
            ELSE showNotification("Removed from Wishlist", "info")
       ELSE showNotification("Failed to update wishlist", "error")
    /\ exit' = "return"
    /\ UNCHANGED <<view, selectedDestination, user, authLoading, db, session,
                   snapshotDue>>
    /\ UNCHANGED <<searchVars, fixedVars, trip>>

\* mutant: the cached user and the view cleared before the await
handleLogout_eager ==
    /\ BagCardinality(calls) < MaxCalls
    /\ calls' = calls (+) SetToBag({Call("logout", "", "", FALSE, "pending")})
    /\ user' = NULL
    /\ view' = "LOGIN"
    /\ exit' = "return"
    /\ UNCHANGED <<selectedDestination, authLoading, notification, db,
                   session, snapshotDue>>
    /\ UNCHANGED <<searchVars, fixedVars, trip>>

\* handleLogout up to its await
handleLogout ==
    /\ BagCardinality(calls) < MaxCalls
    /\ calls' = calls (+) SetToBag({Call("logout", "", "", FALSE, "pending")})
    /\ exit' = "return"
    /\ UNCHANGED <<view, selectedDestination, user, authLoading, notification, db,
                   session, snapshotDue>>
    /\ UNCHANGED <<searchVars, fixedVars, trip>>

\* mutant: a successful logout also clears the search box
handleLogoutResume_clearsSearch(c) ==
    /\ Pending(c)
    /\ c.op = "logout"
    /\ c.status # "pending"
    /\ calls' = calls (-) SetToBag({c})
    /\ IF c.status = "ok"
       THEN /\ user' = NULL
            /\ view' = "LOGIN"
            /\ showNotification("Logged out successfully", "info")
            /\ searchTerm' = <<>>
            /\ exit' = "return"
       ELSE /\ exit' = "handleLogout: throw"
            /\ UNCHANGED <<user, view, notification, searchTerm>>
    /\ UNCHANGED <<selectedDestination, authLoading, db, session, snapshotDue>>
    /\ UNCHANGED <<activeCategory, searchDate, searchGuests, fixedVars, trip>>

\* handleLogout after its await; there is no try/catch, so a rejection of
\* AuthService.logout() rejects the promise handleLogout returned
handleLogoutResume(c) ==
    /\ Pending(c)
    /\ c.op = "logout"
    /\ c.status # "pending"
    /\ calls' = calls (-) SetToBag({c})
    /\ IF c.status = "ok"
       THEN /\ user' = NULL
            /\ view' = "LOGIN"
            /\ showNotification("Logged out successfully", "info")
            /\ exit' = "return"
       ELSE /\ exit' = "handleLogout: throw"
            /\ UNCHANGED <<user, view, notification>>
    /\ UNCHANGED <<selectedDestination, authLoading, db, session, snapshotDue>>
    /\ UNCHANGED <<searchVars, fixedVars, trip>>

\* mutant: setView(DASHBOARD) left out
handleAuthSuccess_staysOnScreen(authenticatedUser) ==
    /\ user' = authenticatedUser
    /\ showNotification("Welcome back, " \o authenticatedUser.name \o "!", "success")
    /\ session' = authenticatedUser.uid
    /\ snapshotDue' = TRUE
    /\ exit' = "return"
    /\ UNCHANGED <<view, selectedDestination, authLoading, db, calls>>
    /\ UNCHANGED <<searchVars, fixedVars, trip>>

\* handleAuthSuccess, called by Login / Register once the collaborator has signed u in
handleAuthSuccess(authenticatedUser) ==
    /\ user' = authenticatedUser
    /\ view' = "DASHBOARD"
    /\ showNotification("Welcome back, " \o authenticatedUser.name \o "!", "success")
    /\ session' = authenticatedUser.uid
    /\ snapshotDue' = TRUE
    /\ exit' = "return"
    /\ UNCHANGED <<selectedDestination, authLoading, db, calls>>
    /\ UNCHANGED <<searchVars, fixedVars, trip>>

handleHomeSearch ==
    /\ view' = "EXPLORE"
    /\ exit' = "return"
    /\ UNCHANGED <<selectedDestination, user, authLoading, notification, db, session,
                   snapshotDue, calls>>
    /\ UNCHANGED <<searchVars, fixedVars, trip>>

\* mutant: the chat screen cannot be left
setView_trapsInChatbot(v) ==
    /\ view' = IF view = "CHATBOT" THEN view ELSE v
    /\ exit' = "return"
    /\ UNCHANGED <<selectedDestination, user, authLoading, notification, db, session,
                   snapshotDue, calls>>
    /\ UNCHANGED <<searchVars, fixedVars, trip>>

\* a bare setView(v) handed to a child or bound to a button
setView(v) ==
    /\ view' = v
    /\ exit' = "return"
    /\ UNCHANGED <<selectedDestination, user, authLoading, notification, db, session,
                   snapshotDue, calls>>
    /\ UNCHANGED <<searchVars, fixedVars, trip>>

onBookingSuccess ==
    /\ view' = "DASHBOARD"
    /\ showNotification("Adventure Booked! Packing your bags...", "success")
    /\ exit' = "return"
    /\ UNCHANGED <<selectedDestination, user, authLoading, db, session, snapshotDue,
                   calls>>
    /\ UNCHANGED <<searchVars, fixedVars, trip>>

\* the notify prop of DestinationDetails and Dashboard
notify(message, type) ==
    /\ showNotification(message, type)
    /\ exit' = "return"
    /\ UNCHANGED <<view, selectedDestination, user, authLoading, db, session,
                   snapshotDue, calls>>
    /\ UNCHANGED <<searchVars, fixedVars, trip>>

closeNotification ==
    /\ notification' = [notification EXCEPT !.isVisible = FALSE]
    /\ exit' = "return"
    /\ UNCHANGED <<view, selectedDestination, user, authLoading, db, session,
                   snapshotDue, calls>>
    /\ UNCHANGED <<searchVars, fixedVars, trip>>

----------------------------------------------------------------------------
(* Search context setters *)

setSearchTerm(term) ==
    /\ searchTerm' = term
    /\ exit' = "return"
    /\ UNCHANGED <<activeCategory, searchDate, searchGuests, fixedVars, trip, appVars>>

setActiveCategory(cat) ==
    /\ activeCategory' = cat
    /\ exit' = "return"
    /\ UNCHANGED <<searchTerm, searchDate, searchGuests, fixedVars, trip, appVars>>

\* the date input of the home search bar
setSearchDate(date) ==
    /\ searchDate' = date
    /\ exit' = "return"
    /\ UNCHANGED <<searchTerm, activeCategory, searchGuests, fixedVars, trip, appVars>>

\* the guests input of the home search bar
setSearchGuests(guests) ==
    /\ searchGuests' = guests
    /\ exit' = "return"
    /\ UNCHANGED <<searchTerm, activeCategory, searchDate, fixedVars, trip, appVars>>

\* mutant: the reset writes the category name in lower case
resetFilters_lowerCaseAll ==
    /\ searchTerm' = <<>>
    /\ activeCategory' = "all"
    /\ exit' = "return"
    /\ UNCHANGED <<searchDate, searchGuests, fixedVars, trip, appVars>>

\* the "Reset Filters" button of the empty result list
resetFilters ==
    /\ searchTerm' = <<>>
    /\ activeCategory' = "All"
    /\ exit' = "return"
    /\ UNCHANGED <<searchDate, searchGuests, fixedVars, trip, appVars>>

----------------------------------------------------------------------------
(* The collaborator (AuthService): it settles each awaited call, applying  *)
(* the toggle to the stored document on success.                           *)

Toggled(set, id, currently) == IF currently THEN set \ {id} ELSE set \cup {id}

ApplyToggle(c) ==
    IF c.op = "toggleWishlist"
    THEN [db EXCEPT ![c.uid].wishlist = Toggled(@, c.id, c.flag)]
    ELSE [db EXCEPT ![c.uid].visitedPlaces = Toggled(@, c.id, c.flag)]

AuthService_toggle(c, ok) ==
    /\ Pending(c)
    /\ c.op \in {"toggleVisited", "toggleWishlist"}
    /\ c.status = "pending"
    /\ IF ok
       THEN /\ db' = ApplyToggle(c)
            /\ snapshotDue' = (snapshotDue \/ (session = c.uid /\ db' # db))
            /\ Settle(c, "ok")
       ELSE /\ Settle(c, "failed")
            /\ UNCHANGED <<db, snapshotDue>>
    /\ UNCHANGED <<view, selectedDestination, user, authLoading, notification, session, exit>>
    /\ UNCHANGED <<searchVars, fixedVars>>

AuthService_logout(c, ok) ==
    /\ Pending(c)
    /\ c.op = "logout"
    /\ c.status = "pending"
    /\ IF ok
       THEN /\ session' = NoSession
            /\ snapshotDue' = (snapshotDue \/ session # NoSession)
            /\ Settle(c, "ok")
       ELSE /\ Settle(c, "failed")
            /\ UNCHANGED <<session, snapshotDue>>
    /\ UNCHANGED <<view, selectedDestination, user, authLoading, notification, db, exit>>
    /\ UNCHANGED <<searchVars, fixedVars, trip>>

----------------------------------------------------------------------------
(* What each screen offers (renderContent) *)

DetailsShown == view = "DETAILS" /\ selectedDestination # NULL

DashboardShown == view = "DASHBOARD" /\ user # NULL

\* destinations whose card can be clicked
ClickTargets ==
    IF view = "EXPLORE" THEN Range(filteredDestinations)
    ELSE IF DashboardShown THEN Range(destinations)
    ELSE {}

\* ids whose visited / wishlist buttons can be pressed
ToggleTargets ==
    IF view = "EXPLORE" THEN {d.id : d \in Range(filteredDestinations)}
    ELSE IF DetailsShown THEN {selectedDestination.id}
    ELSE IF DashboardShown THEN {d.id : d \in Range(destinations)}
    ELSE {}

\* mutant: the fallback also tells the user that nothing was selected
renderDetailsFallback_notifies ==
    /\ view = "DETAILS"
    /\ selectedDestination = NULL
    /\ view' = "EXPLORE"
    /\ showNotification("Destination not found", "error")
    /\ exit' = "render: redirect"
    /\ UNCHANGED <<selectedDestination, user, authLoading, db, session, snapshotDue, calls>>
    /\ UNCHANGED <<searchVars, fixedVars, trip>>

\* case DETAILS without a selected destination: setView(EXPLORE) during render
renderDetailsFallback ==
    /\ view = "DETAILS"
    /\ selectedDestination = NULL
    /\ view' = "EXPLORE"
    /\ exit' = "render: redirect"
    /\ UNCHANGED <<selectedDestination, user, authLoading, notification, db, session,
                   snapshotDue, calls>>
    /\ UNCHANGED <<searchVars, fixedVars, trip>>

\* ProtectedRoute around the dashboard: it redirects once the session is
\* resolved and there is no user
onRedirect ==
    /\ view = "DASHBOARD"
    /\ ~authLoading
    /\ user = NULL
    /\ setView("LOGIN")

HomeButtons ==
    /\ view = "HOME"
    /\ \/ setView("EXPLORE")
       \/ setView("CHATBOT")
       \/ (user = NULL /\ setView("REGISTER"))

\* the navigation bar is handed setView and offers every screen
Navbar == \E v \in ViewState : setView(v)

\* what the user can press on the current screen to go to a screen
UserNavigation ==
    \/ Navbar
    \/ \E dest \in ClickTargets : handleDestinationClick(dest)
    \/ (view = "HOME" /\ handleHomeSearch)
    \/ HomeButtons
    \/ (view = "LOGIN" /\ setView("REGISTER"))
    \/ (view = "REGISTER" /\ setView("LOGIN"))
    \/ (DetailsShown /\ setView("EXPLORE"))
    \/ (DetailsShown /\ setView("LOGIN"))
    \/ (DetailsShown /\ onBookingSuccess)

NotifyMessages == {"child message"}

Next ==
    \/ onAuthChange
    \/ \E dest \in ClickTargets : handleDestinationClick(dest)
    \/ \E id \in ToggleTargets : toggleVisited(id)
    \/ \E id \in ToggleTargets : toggleWishlist(id)
    \/ \E c \in BagToSet(calls) : toggleVisitedResume(c)
    \/ \E c \in BagToSet(calls) : toggleWishlistResume(c)
    \/ handleLogout
    \/ \E c \in BagToSet(calls) : handleLogoutResume(c)
    \/ \E uid \in Uids : view \in {"LOGIN", "REGISTER"} /\ handleAuthSuccess(SignedIn(uid))
    \/ (view = "HOME" /\ handleHomeSearch)
    \/ HomeButtons
    \/ (view = "LOGIN" /\ setView("REGISTER"))
    \/ (view = "REGISTER" /\ setView("LOGIN"))
    \/ (DetailsShown /\ setView("EXPLORE"))
    \/ (DetailsShown /\ setView("LOGIN"))
    \/ (DetailsShown /\ onBookingSuccess)
    \/ renderDetailsFallback
    \/ onRedirect
    \/ Navbar
    \/ \E m \in NotifyMessages, t \in NotificationType :
          (DetailsShown \/ DashboardShown) /\ notify(m, t)
    \/ (notification.isVisible /\ closeNotification)
    \/ \E c \in BagToSet(calls), ok \in BOOLEAN : AuthService_toggle(c, ok) /\ UNCHANGED trip
    \/ \E c \in BagToSet(calls), ok \in BOOLEAN : AuthService_logout(c, ok)

Spec == Init /\ [][Next]_vars

----------------------------------------------------------------------------
(* The life of the component: the effect with the empty dependency list    *)
(* subscribes once after the first render, its cleanup releases the        *)
(* listener when the component is unmounted.                               *)

\* AuthService.subscribeToAuth(callback): one more live listener, which is
\* first told the current session
AuthService_subscribeToAuth ==
    /\ subscriptions' = subscriptions + 1
    /\ snapshotDue' = TRUE

\* the function subscribeToAuth returned: the listener is released and is
\* told nothing more
AuthService_unsubscribe ==
    /\ subscriptions' = subscriptions - 1
    /\ snapshotDue' = FALSE

\* the effect body
useEffect ==
    /\ lifecycle = "created"
    /\ lifecycle' = "mounted"
    /\ AuthService_subscribeToAuth
    /\ exit' = "return"
    /\ UNCHANGED <<view, selectedDestination, user, authLoading, notification, db, session,
                   calls>>
    /\ UNCHANGED <<searchVars, destinations, trip>>

\* mutant: the effect returns no cleanup
useEffectCleanup_noRelease ==
    /\ lifecycle = "mounted"
    /\ lifecycle' = "unmounted"
    /\ exit' = "return"
    /\ UNCHANGED <<view, selectedDestination, user, authLoading, notification, db, session,
                   snapshotDue, calls, subscriptions>>
    /\ UNCHANGED <<searchVars, destinations, trip>>

\* the cleanup the effect returns: () => unsubscribe()
useEffectCleanup ==
    /\ lifecycle = "mounted"
    /\ lifecycle' = "unmounted"
    /\ AuthService_unsubscribe
    /\ exit' = "return"
    /\ UNCHANGED <<view, selectedDestination, user, authLoading, notification, db, session,
                   calls>>
    /\ UNCHANGED <<searchVars, destinations, trip>>

\* the component as it is constructed: no effect has run yet
InitLifecycle ==
    /\ view = "HOME"
    /\ selectedDestination = NULL
    /\ user = NULL
    /\ authLoading = TRUE
    /\ notification = Notice("", "info", FALSE)
    /\ db = [uid \in Uids |-> [wishlist |-> {"1"}, visitedPlaces |-> {}]]
    /\ session \in Uids \cup {NoSession}
    /\ snapshotDue = FALSE
    /\ calls = EmptyBag
    /\ lifecycle = "created"
    /\ subscriptions = 0
    /\ exit = "return"
    /\ InitSearch
    /\ InitTrip
    /\ destinations = MOCK_DESTINATIONS

\* the screen answers only while the component is mounted; the collaborator
\* settles calls whenever it likes
NextLifecycle ==
    \/ useEffect
    \/ useEffectCleanup
    \/ (lifecycle = "mounted" /\ onAuthChange)
    \/ (lifecycle = "mounted" /\ handleLogout)
    \/ \E c \in BagToSet(calls) : lifecycle = "mounted" /\ handleLogoutResume(c)
    \/ \E uid \in Uids : lifecycle = "mounted" /\ view \in {"LOGIN", "REGISTER"}
                            /\ handleAuthSuccess(SignedIn(uid))
    \/ \E v \in ViewState : lifecycle = "mounted" /\ setView(v)
    \/ (lifecycle = "mounted" /\ notification.isVisible /\ closeNotification)
    \/ \E c \in BagToSet(calls), ok \in BOOLEAN : AuthService_logout(c, ok)

\* the effect runs once the first render is committed
SpecLifecycle == InitLifecycle /\ [][NextLifecycle]_vars /\ WF_vars(useEffect)

----------------------------------------------------------------------------
(* The destination filter over every destination list of a bounded pool.   *)
(* The list is fixed for a run; the search box and the category buttons    *)
(* of the home and explore screens drive the filter.                       *)

PoolNames == { <<"a","B">>, <<"c">> }
PoolLocations == { <<"B","c">>, <<"a">> }
PoolPrices == {1500, 1501}
PoolCategories == {"Beach", "History"}

SearchTerms == { <<>>, <<"b">>, <<"A","b">>, <<"C">>, <<"a","c">> }

DestinationPool ==
    [name : PoolNames, location : PoolLocations, price : PoolPrices,
     category : PoolCategories]

\* the i-th destination of a list carries id i
DestinationLists ==
    UNION { { [i \in 1..n |-> Destination(ToString(i), f[i].name, f[i].location,
                                          f[i].price, f[i].category)]
              : f \in [1..n -> DestinationPool] }
            : n \in 0..MaxDests }

InitFilter ==
    /\ InitApp
    /\ InitSearch
    /\ InitTrip
    /\ destinations \in DestinationLists

NextFilter ==
    \/ (view = "HOME" /\ handleHomeSearch)
    \/ \E v \in {"HOME", "EXPLORE"} : setView(v)
    \/ \E t \in SearchTerms : view \in {"HOME", "EXPLORE"} /\ setSearchTerm(t)
    \/ \E i \in 1..Len(CATEGORIES) : view = "EXPLORE" /\ setActiveCategory(CATEGORIES[i])
    \/ (view = "EXPLORE" /\ searchTerm # <<>> /\ setSearchTerm(<<>>))
    \/ (view = "EXPLORE" /\ Len(filteredDestinations) = 0 /\ resetFilters)

SpecFilter == InitFilter /\ [][NextFilter]_vars

----------------------------------------------------------------------------
(* The search context under the handlers: the inputs of the home and the   *)
(* explore screen are typed into while the handlers of Next run.           *)

ContextTerms == { <<>>, <<"b","a","l","i">> }
ContextCategories == {"All", "Mountain"}
ContextDates == {"", "2026-12-24"}
ContextGuests == {"", "2"}

\* the input elements and buttons that write the search context
SearchInputs ==
    \/ \E t \in ContextTerms : view \in {"HOME", "EXPLORE"} /\ setSearchTerm(t)
    \/ \E d \in ContextDates : view = "HOME" /\ setSearchDate(d)
    \/ \E g \in ContextGuests : view = "HOME" /\ setSearchGuests(g)
    \/ \E cat \in ContextCategories : view = "EXPLORE" /\ setActiveCategory(cat)
    \/ (view = "EXPLORE" /\ searchTerm # <<>> /\ setSearchTerm(<<>>))
    \/ (view = "EXPLORE" /\ Len(filteredDestinations) = 0 /\ resetFilters)

\* the inputs together with the handlers that navigate, sign in and out,
\* toggle the wishlist, hear the session listener and close notifications
NextContext ==
    \/ SearchInputs
    \/ onAuthChange
    \/ \E dest \in ClickTargets : handleDestinationClick(dest)
    \/ \E id \in ToggleTargets : toggleWishlist(id)
    \/ \E c \in BagToSet(calls) : toggleWishlistResume(c)
    \/ handleLogout
    \/ \E c \in BagToSet(calls) : handleLogoutResume(c)
    \/ \E uid \in Uids : view \in {"LOGIN", "REGISTER"} /\ handleAuthSuccess(SignedIn(uid))
    \/ (view = "HOME" /\ handleHomeSearch)
    \/ Navbar
    \/ (notification.isVisible /\ closeNotification)
    \/ \E c \in BagToSet(calls), ok \in BOOLEAN : AuthService_toggle(c, ok) /\ UNCHANGED trip
    \/ \E c \in BagToSet(calls), ok \in BOOLEAN : AuthService_logout(c, ok)

SpecContext == Init /\ [][NextContext]_vars

----------------------------------------------------------------------------
(* Claims about the destination filter (checked under SpecFilter) *)

SameLetter(a, b) ==
    \/ a = b
    \/ \E i \in 1..Len(UpperCase) : {a, b} = {UpperCase[i], LowerCase[i]}

\* t occurs in s as a contiguous run of letters, letter case ignored
OccursIgnoringCase(t, s) ==
    \E k \in 0..(Len(s) - Len(t)) : \A j \in 1..Len(t) : SameLetter(t[j], s[k + j])

Wanted(d, t, c) ==
    /\ (d.category = c \/ c = "All" \/ (c = "Budget Friendly" /\ d.price <= 1500))
    /\ (OccursIgnoringCase(t, d.name) \/ OccursIgnoringCase(t, d.location))

\* R is the sub-sequence of D, in D's order, of the positions in keep
IsSubsequenceAt(R, D, keep) ==
    /\ Len(R) = Cardinality(keep)
    /\ \A i \in keep : R[Cardinality({j \in keep : j <= i})] = D[i]

\* C5: the filtered list is exactly the sub-sequence of D, in D's order, of the
\* destinations that match the category rule and contain the term, ignoring case,
\* in their name or location; the empty term matches every destination.
C5_FilterIsTheWantedSubsequence ==
    /\ IsSubsequenceAt(filteredDestinations, destinations,
                       {i \in 1..Len(destinations) :
                            Wanted(destinations[i], searchTerm, activeCategory)})
    /\ \A d \in Range(destinations) :
           OccursIgnoringCase(<<>>, d.name) /\ OccursIgnoringCase(<<>>, d.location)

C5_Witness ==
    /\ searchTerm = <<"A","b">>
    /\ activeCategory = "Beach"
    /\ Len(destinations) = 2
    /\ Len(filteredDestinations) = 1
    /\ filteredDestinations[1] = destinations[2]

\* C6: with category "Budget Friendly" and an empty term the filter returns exactly
\* the destinations priced at or below 1500, whatever their own category.
C6_BudgetFriendlyIsPriceAtMost1500 ==
    (activeCategory = "Budget Friendly" /\ searchTerm = <<>>) =>
        /\ IsSubsequenceAt(filteredDestinations, destinations,
                           {i \in 1..Len(destinations) : destinations[i].price <= 1500})
        /\ \A d \in Range(destinations) :
               d \in Range(filteredDestinations) <=> d.price <= 1500

C6_Witness ==
    /\ activeCategory = "Budget Friendly"
    /\ searchTerm = <<>>
    /\ Len(destinations) = 2
    /\ destinations[1].price > 1500
    /\ filteredDestinations = <<destinations[2]>>
    /\ destinations[2].price = 1500
    /\ destinations[2].category = "History"

----------------------------------------------------------------------------
(* Wishlist round trips: the wishlist handler, the collaborator and the    *)
(* session listener, with the collaborator's applied toggles recorded.     *)

LastTwo(h) == IF Len(h) > 2 THEN Tail(h) ELSE h

\* append to trip what the collaborator is about to apply
RecordToggle(c, ok) ==
    IF ok /\ c.op = "toggleWishlist"
    THEN trip' = [trip EXCEPT ![<<c.uid, c.id>>] =
                     LastTwo(Append(@, [before |-> c.id \in db[c.uid].wishlist,
                                        flag |-> c.flag]))]
    ELSE UNCHANGED trip

NextRoundTrip ==
    \/ onAuthChange
    \/ \E id \in ToggleTargets : toggleWishlist(id)
    \/ \E c \in BagToSet(calls) : toggleWishlistResume(c)
    \/ \E c \in BagToSet(calls), ok \in BOOLEAN :
          AuthService_toggle(c, ok) /\ RecordToggle(c, ok)
    \/ \E uid \in Uids : view \in {"LOGIN", "REGISTER"} /\ handleAuthSuccess(SignedIn(uid))
    \/ \E v \in ViewState : setView(v)

SpecRoundTrip == Init /\ [][NextRoundTrip]_vars

----------------------------------------------------------------------------
(* Claims about the handlers (checked under Spec, C4 under SpecRoundTrip) *)

ToggleOps == {"toggleVisited", "toggleWishlist"}

\* this step is a handler reaching its await with call c
Started(c) == calls' = calls (+) SetToBag({c})

\* this step is the handler that awaited c running on after the await
Resumed(c) == BagIn(c, calls) /\ calls' = calls (-) SetToBag({c})

\* C1: a toggle called while the cached user is null issues no collaborator call
\* and sets the view to LOGIN; cached user and notification stay as they are.
C1_ToggleWithoutUserOnlyRoutesToLogin ==
    [][ (user = NULL /\ \E id \in DestIds : toggleVisited(id) \/ toggleWishlist(id))
        => /\ view' = "LOGIN"
           /\ calls' = calls
           /\ db' = db
           /\ user' = user
           /\ notification' = notification ]_vars

C1_Witness ==
    /\ exit \in {"toggleVisited: no user", "toggleWishlist: no user"}
    /\ user = NULL
    /\ view = "LOGIN"
    /\ calls = EmptyBag

\* C2: when the collaborator's toggle fails, the handler shows an error
\* notification, leaves cached user and view unchanged, and returns normally.
C2_FailedToggleShowsErrorOnly ==
    [][ \A c \in BagToSet(calls) :
          (c.op \in ToggleOps /\ c.status = "failed" /\ Resumed(c))
          => /\ notification'.type = "error"
             /\ notification'.isVisible
             /\ user' = user
             /\ view' = view
             /\ db' = db
             /\ exit' = "return" ]_vars

C2_Witness ==
    /\ notification = Notice("Failed to update wishlist", "error", TRUE)
    /\ user # NULL
    /\ user.wishlist = db[user.uid].wishlist
    /\ calls = EmptyBag
    /\ exit = "return"

\* C3: a rejection of the collaborator's logout is caught by the logout handler
\* and shown as an error notification; it does not leave the handler.
C3_LogoutFailureIsCaughtAndShown ==
    [][ \A c \in BagToSet(calls) :
          (c.op = "logout" /\ c.status = "failed" /\ Resumed(c))
          => /\ notification'.type = "error"
             /\ notification'.isVisible
             /\ exit' # "handleLogout: throw" ]_vars

WishlistedNow(k) == k[2] \in db[k[1]].wishlist

C7_WishlistFlagAndNotification ==
    /\ [][ \A id \in DestIds :
             (user # NULL /\ toggleWishlist(id))
             => Started(Call("toggleWishlist", user.uid, id, id \in user.wishlist,
                             "pending")) ]_vars
    /\ [][ \A c \in BagToSet(calls) :
             (c.op = "toggleWishlist" /\ c.status = "ok" /\ Resumed(c))
             => notification' = IF c.flag
                                THEN Notice("Removed from Wishlist", "info", TRUE)
                                ELSE Notice("Added to Wishlist", "success", TRUE) ]_vars

\* the example of the specification: wishlist = ["1"], toggleWishlist("1")
C7_Witness ==
    /\ notification = Notice("Removed from Wishlist", "info", TRUE)
    /\ user # NULL
    /\ "1" \in user.wishlist
    /\ "1" \notin db[user.uid].wishlist
    /\ calls = EmptyBag

\* C8: a successful toggleVisited shows a success notification exactly when the
\* id was not in the cached visited set at the start of the handler; a removal
\* leaves the notification as it was.
C8_VisitedNotifiesOnlyWhenAdded ==
    /\ [][ \A id \in DestIds :
             (user # NULL /\ toggleVisited(id))
             => Started(Call("toggleVisited", user.uid, id, id \in user.visitedPlaces,
                             "pending")) ]_vars
    /\ [][ \A c \in BagToSet(calls) :
             (c.op = "toggleVisited" /\ c.status = "ok" /\ Resumed(c))
             => IF c.flag
                THEN notification' = notification
                ELSE notification' = Notice("Added to your Travel Log!", "success", TRUE)
       ]_vars

\* a place added, delivered to the cache, then removed: the removal has been
\* handled and the notification of the addition still stands
C8_Witness ==
    /\ notification = Notice("Added to your Travel Log!", "success", TRUE)
    /\ user # NULL
    /\ "1" \in user.visitedPlaces
    /\ "1" \notin db[user.uid].visitedPlaces
    /\ calls = EmptyBag

\* C9: after a successful collaborator logout the handler ends with cached user
\* null, view LOGIN and a visible info notification; it applies none of these
\* when it starts, and runs on only once the logout call has settled.
C9_LogoutAppliesAfterCompletion ==
    /\ [][ \A c \in BagToSet(calls) :
             (c.op = "logout" /\ c.status = "ok" /\ Resumed(c))
             => /\ user' = NULL
                /\ view' = "LOGIN"
                /\ notification' = Notice("Logged out successfully", "info", TRUE) ]_vars
    /\ [][ handleLogout => UNCHANGED <<user, view, notification>> ]_vars
    /\ [][ \A c \in BagToSet(calls) :
             (c.op = "logout" /\ Resumed(c)) => c.status # "pending" ]_vars

C9_Witness ==
    /\ notification = Notice("Logged out successfully", "info", TRUE)
    /\ user = NULL
    /\ view = "LOGIN"
    /\ session = NoSession
    /\ calls = EmptyBag

\* C10: onAuthSuccess(u) from the login or register screen sets the cached user
\* to u, the view to DASHBOARD and shows a success notification.
C10_AuthSuccessReplacesUserAndRoutes ==
    [][ \A uid \in Uids :
          (view \in {"LOGIN", "REGISTER"} /\ handleAuthSuccess(SignedIn(uid)))
          => /\ user' = SignedIn(uid)
             /\ view' = "DASHBOARD"
             /\ notification'.type = "success"
             /\ notification'.isVisible ]_vars

C10_Witness ==
    /\ notification = Notice("Welcome back, Asha!", "success", TRUE)
    /\ view = "DASHBOARD"
    /\ user = SignedIn("u1")
    /\ session = "u1"

----------------------------------------------------------------------------
(* Claims about routing, the notification record and the cached user      *)
(* (checked under Spec)                                                    *)

\* the render of case DETAILS that finds no selected destination
DetailsWithoutDestination == view = "DETAILS" /\ selectedDestination = NULL

\* C11: the details screen is shown only with a selected destination. In a
\* state with view DETAILS and no selected destination the redirecting render
\* is enabled and nothing of the details screen is offered (no card, no
\* toggle button); the redirect sets the view to EXPLORE and leaves the
\* notification and the selection as they were; and every step that changes
\* the selected destination (a destination click) sets it to a destination
\* in the same step that makes the view DETAILS.
C11_DetailsOnlyWithDestination ==
    [][ /\ DetailsWithoutDestination =>
             /\ ENABLED renderDetailsFallback
             /\ ~DetailsShown
             /\ ClickTargets = {}
             /\ ToggleTargets = {}
        /\ (DetailsWithoutDestination /\ exit' = "render: redirect") =>
             /\ view' = "EXPLORE"
             /\ notification' = notification
             /\ selectedDestination' = NULL
        /\ selectedDestination' # selectedDestination =>
             /\ selectedDestination' \in Range(destinations)
             /\ view' = "DETAILS" ]_vars

\* the redirect has run while a notification was on screen, and the
\* notification is still there
C11_Witness ==
    /\ exit = "render: redirect"
    /\ view = "EXPLORE"
    /\ selectedDestination = NULL
    /\ notification.isVisible

\* C12: there is one notification record. A show(message, kind) step leaves
\* exactly (message, kind, visible) in it, whatever it held before; every
\* step that changes the record either shows a notification or is a close,
\* and a close changes the visibility flag only, to false.
C12_ShowReplacesCloseHides ==
    [][ /\ DOMAIN notification = {"message", "type", "isVisible"}
        /\ notification.type \in NotificationType
        /\ notification.isVisible \in BOOLEAN
        /\ \A m \in NotifyMessages, t \in NotificationType :
              notify(m, t) => notification' = Notice(m, t, TRUE)
        /\ onBookingSuccess =>
              notification' = Notice("Adventure Booked! Packing your bags...", "success", TRUE)
        /\ notification' # notification =>
              \/ notification'.isVisible
              \/ /\ notification.isVisible
                 /\ notification' = Notice(notification.message, notification.type, FALSE)
        /\ closeNotification =>
              /\ ~notification'.isVisible
              /\ notification'.message = notification.message
              /\ notification'.type = notification.type ]_vars

\* a notification shown by a child screen has been closed: the record keeps
\* its message and kind and is no longer visible
C12_Witness ==
    /\ ~notification.isVisible
    /\ notification.message = "child message"
    /\ notification.type = "error"

----------------------------------------------------------------------------
(* Claims about the search context (checked under SpecFilter) *)

\* C13: the active category starts as "All" and every step leaves it a
\* member of CATEGORIES, a list that holds "All" and "Budget Friendly"; so
\* it is a member of the list in every reachable state.
C13_ActiveCategoryIsListed ==
    /\ activeCategory = "All"
    /\ {"All", "Budget Friendly"} \subseteq Range(CATEGORIES)
    /\ [][ /\ activeCategory \in Range(CATEGORIES)
           /\ activeCategory' \in Range(CATEGORIES) ]_vars

\* a category button has changed the active category to the last member of
\* the list, and the filter shows a destination under it
C13_Witness ==
    /\ view = "EXPLORE"
    /\ activeCategory = "Budget Friendly"
    /\ activeCategory = CATEGORIES[Len(CATEGORIES)]
    /\ Len(filteredDestinations) > 0

----------------------------------------------------------------------------
(* Claim about the session subscription (checked under SpecLifecycle) *)

\* C14: the session subscription is acquired once, by the effect that runs
\* when the component starts, and released by its cleanup. There is exactly
\* one live subscription while the component is mounted and none before or
\* after; a subscription is only ever acquired on the step from "created"
\* to "mounted", a component never returns to "created" and an unmounted one
\* stays unmounted; and the effect does run.
C14_SubscriptionIsScoped ==
    /\ [](subscriptions = IF lifecycle = "mounted" THEN 1 ELSE 0)
    /\ [][ /\ subscriptions' > subscriptions =>
                 (lifecycle = "created" /\ lifecycle' = "mounted")
           /\ lifecycle' = "created" => lifecycle = "created"
           /\ lifecycle = "unmounted" =>
                 (lifecycle' = "unmounted" /\ user' = user /\ authLoading' = authLoading) ]_vars
    /\ <>(lifecycle # "created")

\* the component was torn down after the listener had delivered a user, and
\* no subscription is left
C14_Witness ==
    /\ lifecycle = "unmounted"
    /\ subscriptions = 0
    /\ user # NULL
    /\ ~authLoading

----------------------------------------------------------------------------
(* Claim about letter case in the text match (checked under SpecFilter) *)

UpperChar(ch) ==
    IF \E i \in 1..Len(LowerCase) : LowerCase[i] = ch
    THEN UpperCase[CHOOSE i \in 1..Len(LowerCase) : LowerCase[i] = ch]
    ELSE ch

\* every term that differs from s in letter case only (s itself included)
CaseVariants(s) ==
    { [i \in 1..Len(s) |-> IF i \in U THEN UpperChar(s[i]) ELSE LowerChar(s[i])]
      : U \in SUBSET (1..Len(s)) }

\* C15: the text match ignores letter case. For the destination list, the
\* category and the term of every reachable state, the filter gives the same
\* list for every term that differs from the typed one in letter case only
\* (so any two such terms give identical results).
C15_FilterIgnoresLetterCase ==
    \A t \in CaseVariants(searchTerm) :
        /\ \A i \in 1..Len(t) : SameLetter(t[i], searchTerm[i])
        /\ Filter(destinations, t, activeCategory) = filteredDestinations

\* "Ab" is typed, it keeps one destination of two, and "ab", "aB" and "AB"
\* are among the terms compared with it
C15_Witness ==
    /\ searchTerm = <<"A","b">>
    /\ Len(destinations) = 2
    /\ Len(filteredDestinations) = 1
    /\ {<<"a","b">>, <<"a","B">>, <<"A","B">>} \subseteq CaseVariants(searchTerm)

----------------------------------------------------------------------------
(* Claim about the view (checked under Spec) *)

----------------------------------------------------------------------------
(* Claim about the search context under the handlers (checked under        *)
(* SpecContext)                                                            *)

\* C17: the four values of the search context are written by the search
\* inputs and reset buttons only. Every step that changes the term, the
\* active category, the date or the guest count is a step of an input or a
\* reset button, and every step that changes the view, the selected
\* destination, the cached user, the loading flag, the notification, the
\* collaborator's state or the awaited calls (navigation, home search
\* submission, destination click, authentication success, logout, toggle,
\* session-listener callback, notification) leaves the four values as they
\* were.
C17_OnlyInputsWriteSearchContext ==
    [][ /\ searchVars' # searchVars => SearchInputs
        /\ appVars' # appVars => searchVars' = searchVars ]_vars

\* all four values have been typed or chosen, and then a logout has gone
\* through: the context is still there on the login screen
C17_Witness ==
    /\ searchTerm = <<"b","a","l","i">>
    /\ activeCategory = "Mountain"
    /\ searchDate = "2026-12-24"
    /\ searchGuests = "2"
    /\ view = "LOGIN"
    /\ user = NULL
    /\ notification = Notice("Logged out successfully", "info", TRUE)

----------------------------------------------------------------------------
(* Claim about the writers of the cached user (checked under Spec) *)

\* this step is the session listener's callback
Delivered == snapshotDue /\ ~snapshotDue'

\* C18: the cached user is written by the session listener's callback, by
\* handleAuthSuccess and by a logout that succeeded, and by nothing else.
\* The callback leaves exactly the value delivered, null included. A toggle
\* handler writes it neither before nor after its await, whether the call
\* succeeded or failed and whatever happened in between: after the await it
\* changes the notification at most (view, cached user, selected
\* destination, loading flag and the collaborator's state stay as they are).
C18_OnlyThreeWritersOfUser ==
    [][ /\ user' # user =>
             \/ Delivered
             \/ \E uid \in Uids : handleAuthSuccess(SignedIn(uid))
             \/ \E c \in BagToSet(calls) :
                   Resumed(c) /\ c.op = "logout" /\ c.status = "ok" /\ user' = NULL
        /\ Delivered => user' = SessionUser
        /\ \A uid \in Uids :
             handleAuthSuccess(SignedIn(uid)) => user' = SignedIn(uid)
        /\ \A c \in BagToSet(calls) :
             (Resumed(c) /\ c.op = "logout") =>
                 user' = IF c.status = "ok" THEN NULL ELSE user
        /\ \A c \in BagToSet(calls') :
             (Started(c) /\ c.op \in ToggleOps) => user' = user
        /\ \A c \in BagToSet(calls) :
             (Resumed(c) /\ c.op \in ToggleOps) =>
                 /\ c.status \in {"ok", "failed"}
                 /\ UNCHANGED <<view, user, selectedDestination, authLoading, db, session,
                                snapshotDue, searchVars, fixedVars>> ]_vars

\* a wishlist toggle has gone through and its handler has finished, the
\* listener has not spoken yet: the cached user still shows the old wishlist
C18_Witness ==
    /\ user # NULL
    /\ calls = EmptyBag
    /\ notification = Notice("Removed from Wishlist", "info", TRUE)
    /\ user.wishlist = {"1"}
    /\ db[user.uid].wishlist = {}
    /\ snapshotDue

====
